---- MODULE Spec2Model ----
(***************************************************************************)
(* Model of src/Hierarchical/Tree/src/main.rs: the TreeNode ownership tree *)
(* (new, add_children, calculate_total, get_item) and the program main.    *)
(*                                                                         *)
(* A TreeNode is the value the struct is: a record of its name, its amount *)
(* and the sequence of the TreeNodes it owns.  A reference into a tree     *)
(* (&TreeNode) is the path of child positions that leads from the node the *)
(* search started at to the node referred to; <<>> is that node itself.    *)
(* Amounts are integer-valued f64 far below 2^53, on which f64 addition is *)
(* exact, so + on integers is what the code computes on them.              *)
(*                                                                         *)
(* Spec     any client of the four operations, on bounded inputs           *)
(* SpecMain the statements of main in their order, under a running clock   *)
(***************************************************************************)
EXTENDS Integers, Sequences, FiniteSets, Bags, TLC

VARIABLES
    locals,   \* the TreeNodes a client owns in local variables, as a bag
    created,  \* the number of TreeNode::new calls made
    last,     \* the latest call: its receiver, argument and return value
    pc,       \* main: the statement about to run
    env,      \* main: the local variables in scope, by name
    clock     \* main: the time in milliseconds

vars == <<locals, created, last, pc, env, clock>>

\* ------------------------------------------------------------------ bounds
\* The most TreeNode::new calls a client of Spec makes.
MaxNodes == 5
\* The most milliseconds the clock advances during a run of main.
MaxClock == 6

\* The names and amounts a client of Spec passes to TreeNode::new, and the
\* names it looks up.
Names == {"a", "b"}
Amounts == {-1, 2}
Targets == Names \cup {"Nonexistent"}

\* ------------------------------------------------------------- Option<T>
None == <<>>
Some(x) == <<x>>

\* ------------------------------------------------------------ impl TreeNode
new(name, value) ==
    [name |-> name, amount |-> value, childrens |-> <<>>]

\* Bug: the child is put in front of the children already there.
add_children_front(self, child) ==
    [self EXCEPT !.childrens = <<child>> \o @]

\* The value of *self after self.add_children(child).
add_children(self, child) ==
    [self EXCEPT !.childrens = Append(@, child)]

RECURSIVE calculate_total(_), calculate_total_loop(_, _, _)
RECURSIVE calculate_total_loop_shallow(_, _, _)
\* Bug: a child adds its own amount, not the total of its subtree.
calculate_total_loop_shallow(self, i, total) ==
    IF i > Len(self.childrens)
    THEN total
    ELSE calculate_total_loop_shallow(self, i + 1,
                                      total + self.childrens[i].amount)

\* The for loop of calculate_total from child i on, total being the sum so far.
calculate_total_loop(self, i, total) ==
    IF i > Len(self.childrens)
    THEN total
    ELSE calculate_total_loop(self, i + 1,
                              total + calculate_total(self.childrens[i]))

\* Bug: the sum starts from zero, not from the node's own amount.
calculate_total_from_zero(self) ==
    calculate_total_loop(self, 1, 0)

calculate_total(self) ==
    calculate_total_loop(self, 1, self.amount)

RECURSIVE get_item(_, _), get_item_loop(_, _, _)
RECURSIVE get_item_loop_backwards(_, _, _)
\* Bug: the children are searched from the last to the first.
get_item_loop_backwards(self, name, i) ==
    IF i > Len(self.childrens)
    THEN None
    ELSE LET k == Len(self.childrens) + 1 - i
             found == get_item(self.childrens[k], name)
         IN  IF found # None
             THEN Some(<<k>> \o found[1])
             ELSE get_item_loop_backwards(self, name, i + 1)

\* Bug: the loop returns what the first child it visits answers, hit or miss.
get_item_loop_first_child_only(self, name, i) ==
    IF i > Len(self.childrens)
    THEN None
    ELSE LET found == get_item(self.childrens[i], name)
         IN  IF found # None THEN Some(<<i>> \o found[1]) ELSE None

\* The for loop of get_item from child i on.
get_item_loop(self, name, i) ==
    IF i > Len(self.childrens)
    THEN None
    ELSE LET found == get_item(self.childrens[i], name)
         IN  IF found # None
             THEN Some(<<i>> \o found[1])
             ELSE get_item_loop(self, name, i + 1)

\* Bug: a miss in the whole subtree answers the node itself.
get_item_or_self(self, name) ==
    IF self.name = name
    THEN Some(<<>>)
    ELSE LET found == get_item_loop(self, name, 1)
         IN  IF found # None THEN found ELSE Some(<<>>)

\* Bug: only the node itself is compared, its children are not searched.
get_item_no_descent(self, name) ==
    IF self.name = name THEN Some(<<>>) ELSE None

get_item(self, name) ==
    IF self.name = name
    THEN Some(<<>>)
    ELSE get_item_loop(self, name, 1)

\* The TreeNode a reference refers to.
RECURSIVE Deref(_, _)
Deref(self, path) ==
    IF path = <<>> THEN self
    ELSE Deref(self.childrens[Head(path)], Tail(path))

\* ------------------------------------------------------- a client (Spec)
Unit == <<>>
NoCall == [op |-> "none", self |-> Unit, arg |-> Unit, ret |-> Unit]

NotRunning == "none"

Init ==
    /\ locals = EmptyBag
    /\ created = 0
    /\ last = NoCall
    /\ pc = NotRunning
    /\ env = <<>>
    /\ clock = 0

\* let x = TreeNode::new(name, value);
New(name, value) ==
    /\ created < MaxNodes
    /\ created' = created + 1
    /\ locals' = locals (+) SetToBag({new(name, value)})
    /\ last' = [op |-> "new", self |-> Unit, arg |-> name,
                ret |-> new(name, value)]
    /\ UNCHANGED <<pc, env, clock>>

\* Bug: the child is copied into p and stays a local of its own.
AddChildrenShared(p, c) ==
    /\ BagIn(p, locals) /\ BagIn(c, locals)
    /\ p = c => CopiesIn(p, locals) >= 2
    /\ locals' = (locals (-) SetToBag({p})) (+) SetToBag({add_children(p, c)})
    /\ last' = [op |-> "add_children", self |-> p, arg |-> c,
                ret |-> add_children(p, c)]
    /\ UNCHANGED <<created, pc, env, clock>>

\* p.add_children(c); for two locals p and c: c is moved into p.
AddChildren(p, c) ==
    /\ BagIn(p, locals) /\ BagIn(c, locals)
    /\ p = c => CopiesIn(p, locals) >= 2
    /\ locals' = (locals (-) (SetToBag({p}) (+) SetToBag({c})))
                     (+) SetToBag({add_children(p, c)})
    /\ last' = [op |-> "add_children", self |-> p, arg |-> c,
                ret |-> add_children(p, c)]
    /\ UNCHANGED <<created, pc, env, clock>>

\* Bug: calculate_total takes self by value, and the tree is gone after it.
CalculateTotalTaking(r) ==
    /\ BagIn(r, locals)
    /\ locals' = locals (-) SetToBag({r})
    /\ last' = [op |-> "calculate_total", self |-> r, arg |-> Unit,
                ret |-> calculate_total(r)]
    /\ UNCHANGED <<created, pc, env, clock>>

\* let t = r.calculate_total();
CalculateTotal(r) ==
    /\ BagIn(r, locals)
    /\ last' = [op |-> "calculate_total", self |-> r, arg |-> Unit,
                ret |-> calculate_total(r)]
    /\ UNCHANGED <<locals, created, pc, env, clock>>

\* let f = r.get_item(name);
GetItem(r, name) ==
    /\ BagIn(r, locals)
    /\ last' = [op |-> "get_item", self |-> r, arg |-> name,
                ret |-> get_item(r, name)]
    /\ UNCHANGED <<locals, created, pc, env, clock>>

Next ==
    \/ \E name \in Names, value \in Amounts : New(name, value)
    \/ \E p \in BagToSet(locals), c \in BagToSet(locals) : AddChildren(p, c)
    \/ \E r \in BagToSet(locals) : CalculateTotal(r)
    \/ \E r \in BagToSet(locals), name \in Targets : GetItem(r, name)

Spec == Init /\ [][Next]_vars

\* ---------------------------------------------------------- main (SpecMain)
\* Bug: despesas is attached to root after the total is taken.
main_order_attach_after_read ==
    <<"L74", "L75", "L77", "L78", "L79", "L81", "L82", "L83", "L85", "L88",
      "L86", "L89", "L91", "L92", "L93", "L94", "L95", "L96">>

\* The statements of main, by source line, in the order they run; "L96" is
\* the return from main.
main_order ==
    <<"L74", "L75", "L77", "L78", "L79", "L81", "L82", "L83", "L85", "L86",
      "L88", "L89", "L91", "L92", "L93", "L94", "L95", "L96">>

NextLine(l) ==
    main_order[(CHOOSE i \in 1..Len(main_order) : main_order[i] = l) + 1]

\* The thread has panicked: Option::unwrap on None (line 93), or println!
\* failing to write to stdout (lines 89, 92, 93, 95).  main does not go on.
UnwrapPanicked == "panic: called Option::unwrap() on a None value"
PrintPanicked == "panic: failed printing to stdout"

\* env is main's frame: the local variables that are declared and not moved
\* out of.
Declare(x, v) == (x :> v) @@ env
Assign(x, v) == [env EXCEPT ![x] = v]
Move(e, x) == [y \in DOMAIN e \ {x} |-> e[y]]

InitMain ==
    /\ locals = EmptyBag
    /\ created = 0
    /\ last = NoCall
    /\ pc = "L74"
    /\ env = <<>>
    /\ clock = 0

\* Every statement of main leaves the client's variables of Spec alone.
Goto(l) ==
    /\ pc' = l
    /\ UNCHANGED <<locals, created, last, clock>>

\* Time passes while main runs (time::Instant is monotonic).
Tick ==
    /\ pc \notin {"L96", UnwrapPanicked, PrintPanicked}
    /\ clock < MaxClock
    /\ clock' = clock + 1
    /\ UNCHANGED <<locals, created, last, pc, env>>

L74 ==
    /\ pc = "L74"
    /\ env' = Declare("time_now", clock)
    /\ Goto(NextLine("L74"))

L75 ==
    /\ pc = "L75"
    /\ env' = Declare("root", new("Financeiro", 0))
    /\ Goto(NextLine("L75"))

L77 ==
    /\ pc = "L77"
    /\ env' = Declare("receitas", new("Receitas", 0))
    /\ Goto(NextLine("L77"))

L78 ==
    /\ pc = "L78"
    /\ env' = Assign("receitas",
                     add_children(env.receitas, new("Salário", 5000)))
    /\ Goto(NextLine("L78"))

L79 ==
    /\ pc = "L79"
    /\ env' = Assign("receitas",
                     add_children(env.receitas, new("Investimentos", 2000)))
    /\ Goto(NextLine("L79"))

L81 ==
    /\ pc = "L81"
    /\ env' = Declare("despesas", new("Despesas", 0))
    /\ Goto(NextLine("L81"))

L82 ==
    /\ pc = "L82"
    /\ env' = Assign("despesas",
                     add_children(env.despesas, new("Aluguel", -1200)))
    /\ Goto(NextLine("L82"))

L83 ==
    /\ pc = "L83"
    /\ env' = Assign("despesas",
                     add_children(env.despesas, new("Supermercado", -800)))
    /\ Goto(NextLine("L83"))

L85 ==
    /\ pc = "L85"
    /\ env' = Move([env EXCEPT !.root = add_children(@, env.receitas)],
                   "receitas")
    /\ Goto(NextLine("L85"))

L86 ==
    /\ pc = "L86"
    /\ env' = Move([env EXCEPT !.root = add_children(@, env.despesas)],
                   "despesas")
    /\ Goto(NextLine("L86"))

L88 ==
    /\ pc = "L88"
    /\ env' = Declare("total_financeiro", calculate_total(env.root))
    /\ Goto(NextLine("L88"))

\* println! at line l: the write to stdout succeeds and main goes on, or it
\* fails (stdout closed or full) and println! panics.  The text written is
\* not modelled.
Println(l) ==
    /\ env' = env
    /\ \/ Goto(NextLine(l))
       \/ Goto(PrintPanicked)

L89 ==
    /\ pc = "L89"
    /\ Println("L89")

L91 ==
    /\ pc = "L91"
    /\ env' = Declare("rent", get_item(env.root, "Aluguel"))
    /\ Goto(NextLine("L91"))

L92 ==
    /\ pc = "L92"
    /\ Println("L92")

\* println!("{:?}", rent.unwrap()): unwrap panics on None, before anything
\* is written.
L93 ==
    /\ pc = "L93"
    /\ IF env.rent = None
       THEN env' = env /\ Goto(UnwrapPanicked)
       ELSE Println("L93")

L94 ==
    /\ pc = "L94"
    /\ env' = Declare("diff_time", clock - env.time_now)
    /\ Goto(NextLine("L94"))

L95 ==
    /\ pc = "L95"
    /\ Println("L95")

NextMain ==
    \/ Tick
    \/ L74 \/ L75 \/ L77 \/ L78 \/ L79 \/ L81 \/ L82 \/ L83 \/ L85 \/ L86
    \/ L88 \/ L89 \/ L91 \/ L92 \/ L93 \/ L94 \/ L95

SpecMain == InitMain /\ [][NextMain]_vars
\* ------------------------------------------------------ notions of the claims
\* The references to the nodes of a tree: every node, by its path.
RECURSIVE Paths(_)
Paths(t) ==
    {<<>>} \cup UNION {{<<i>> \o q : q \in Paths(t.childrens[i])} :
                         i \in 1..Len(t.childrens)}

\* The nodes of t that carry the name.
Matches(t, name) == {q \in Paths(t) : Deref(t, q).name = name}

\* p comes before q in a pre-order, depth-first walk with children in
\* insertion order: p is an ancestor of q, or where they part p takes the
\* earlier child.
PreBefore(p, q) ==
    /\ p # q
    /\ \/ /\ Len(p) < Len(q)
          /\ \A j \in 1..Len(p) : p[j] = q[j]
       \/ \E k \in 1..Len(p) :
             /\ k <= Len(q)
             /\ \A j \in 1..(k - 1) : p[j] = q[j]
             /\ p[k] < q[k]

\* The sum of calculate_total over the first k children, in child order.
RECURSIVE SumOfTotals(_, _)
SumOfTotals(children, k) ==
    IF k = 0 THEN 0
    ELSE SumOfTotals(children, k - 1) + calculate_total(children[k])

\* The number of nodes of a tree, and of all the trees the locals own.
NodeCount(t) == Cardinality(Paths(t))
RECURSIVE OwnedNodes(_, _)
OwnedNodes(bag, trees) ==
    IF trees = {} THEN 0
    ELSE LET t == CHOOSE x \in trees : TRUE
         IN  CopiesIn(t, bag) * NodeCount(t) + OwnedNodes(bag, trees \ {t})

\* ----------------------------------------------------------------- claims
\* C1: calculate_total(n) is n.amount plus the sum of calculate_total over
\* n's children in child order, for the node the call is made on and every
\* node below it; for a node without children it is n.amount.
C1_TotalEquation ==
    last.op = "calculate_total" =>
        /\ last.ret = last.self.amount
                        + SumOfTotals(last.self.childrens,
                                      Len(last.self.childrens))
        /\ \A q \in Paths(last.self) :
              LET n == Deref(last.self, q)
              IN  /\ calculate_total(n) =
                        n.amount + SumOfTotals(n.childrens, Len(n.childrens))
                  /\ n.childrens = <<>> => calculate_total(n) = n.amount

C1_Witness ==
    /\ last.op = "calculate_total"
    /\ Len(last.self.childrens) >= 2
    /\ last.self.childrens[1].childrens # <<>>
    /\ last.ret # last.self.amount

\* C2: when two or more nodes carry the name looked up, get_item returns the
\* one that comes first in pre-order.
C2_PreorderFirst ==
    (last.op = "get_item"
        /\ Cardinality(Matches(last.self, last.arg)) >= 2) =>
        /\ last.ret # None
        /\ last.ret[1] \in Matches(last.self, last.arg)
        /\ \A q \in Matches(last.self, last.arg) \ {last.ret[1]} :
              PreBefore(last.ret[1], q)

\* The match lies in the first child's subtree, two levels down, and beats a
\* match that is a direct child.
C2_Witness ==
    /\ last.op = "get_item"
    /\ Matches(last.self, last.arg) = {<<1, 1>>, <<2>>}
    /\ last.ret = Some(<<1, 1>>)

\* C3: looking up a name no node of the tree carries returns None.
C3_MissIsNone ==
    (last.op = "get_item" /\ Matches(last.self, last.arg) = {}) =>
        last.ret = None

C3_Witness ==
    /\ last.op = "get_item"
    /\ last.arg = "Nonexistent"
    /\ NodeCount(last.self) >= 3
    /\ last.ret = None

\* C4 as stated: after p.add_children(c), p.get_item(c.name) returns the
\* attached child c, whatever the names in p.
C4_AttachedChildFound ==
    last.op = "add_children" =>
        /\ get_item(last.ret, last.arg.name)
              = Some(<<Len(last.ret.childrens)>>)
        /\ Deref(last.ret, <<Len(last.ret.childrens)>>) = last.arg

\* C4 amended: after p.add_children(c), p.get_item(c.name) returns the
\* attached child c, provided neither p nor a node below p carried c's name
\* before the attach.
C4_AttachedChildFoundIfNameFresh ==
    (last.op = "add_children"
        /\ Matches(last.self, last.arg.name) = {}) =>
        /\ get_item(last.ret, last.arg.name)
              = Some(<<Len(last.ret.childrens)>>)
        /\ Deref(last.ret, <<Len(last.ret.childrens)>>) = last.arg

C4_Witness ==
    /\ last.op = "add_children"
    /\ Matches(last.self, last.arg.name) = {}
    /\ Len(last.self.childrens) >= 1
    /\ last.arg.childrens # <<>>
    /\ get_item(last.ret, last.arg.name) = Some(<<Len(last.ret.childrens)>>)

\* C5: add_children appends the child as the last child and changes nothing
\* else: the parent's name and amount, the children it had and their order,
\* and the child's subtree are as before, the child sequence is longer by
\* one, and no other local changes.
C5_AppendOnly ==
    [][last'.op = "add_children" =>
        LET p == last'.self
            c == last'.arg
            r == last'.ret
            n == Len(p.childrens)
        IN  /\ r.name = p.name
            /\ r.amount = p.amount
            /\ Len(r.childrens) = n + 1
            /\ \A i \in 1..n : r.childrens[i] = p.childrens[i]
            /\ r.childrens[n + 1] = c
            /\ BagIn(r, locals')
            /\ created' = created
            /\ \A x \in (BagToSet(locals) \cup BagToSet(locals')) \ {p, c, r} :
                  CopiesIn(x, locals') = CopiesIn(x, locals)]_vars

C5_Witness ==
    /\ last.op = "add_children"
    /\ Len(last.self.childrens) >= 1
    /\ last.arg.childrens # <<>>
    /\ BagCardinality(locals) >= 2

\* C6: after any creates and attaches every node created is owned exactly
\* once (it is a local, the root of its tree, or one child of one node): the
\* trees the locals own hold as many nodes as were created, and an attach
\* gives the child up, so that it is not there to be attached again.
C6_OwnedOnce ==
    OwnedNodes(locals, BagToSet(locals)) = created

C6_Witness ==
    /\ last.op = "add_children"
    /\ created = MaxNodes
    /\ BagCardinality(locals) = 1

\* C7: the tree main builds is the example tree and its total is 5000.
ExampleTree ==
    [name |-> "Financeiro", amount |-> 0, childrens |-> <<
        [name |-> "Receitas", amount |-> 0, childrens |-> <<
            [name |-> "Salário", amount |-> 5000, childrens |-> <<>>],
            [name |-> "Investimentos", amount |-> 2000, childrens |-> <<>>]>>],
        [name |-> "Despesas", amount |-> 0, childrens |-> <<
            [name |-> "Aluguel", amount |-> -1200, childrens |-> <<>>],
            [name |-> "Supermercado", amount |-> -800, childrens |-> <<>>]>>]>>]

C7_ExampleTotal ==
    "total_financeiro" \in DOMAIN env =>
        /\ env.root = ExampleTree
        /\ env.total_financeiro = 5000

C7_Witness ==
    /\ pc = "L89"
    /\ "total_financeiro" \in DOMAIN env

\* C8: in main, get_item(root, "Aluguel") returns a node of amount -1200
\* without children, and the unwrap of line 93 does not panic on a miss.
C8_RentFound ==
    /\ pc # UnwrapPanicked
    /\ "rent" \in DOMAIN env =>
          /\ env.rent # None
          /\ Deref(env.root, env.rent[1])
                = [name |-> "Aluguel", amount |-> -1200, childrens |-> <<>>]

C8_Witness ==
    /\ pc = "L94"
    /\ "rent" \in DOMAIN env

\* C9: calculate_total and get_item change no tree, hit or miss, and the
\* node get_item returns is a node of the tree searched that carries the name.
C9_ReadsArePure ==
    [][last'.op \in {"calculate_total", "get_item"} =>
        /\ locals' = locals
        /\ created' = created
        /\ BagIn(last'.self, locals')
        /\ (last'.op = "get_item" /\ last'.ret # None) =>
              /\ last'.ret[1] \in Paths(last'.self)
              /\ Deref(last'.self, last'.ret[1]).name = last'.arg]_vars

C9_Witness ==
    /\ last.op = "get_item"
    /\ last.ret # None
    /\ Len(last.ret[1]) = 2

\* C10: in main every attach comes before the first read: once
\* calculate_total or get_item has been called no statement attaches, and
\* root is unchanged to the end of the run.
AttachLines == {"L78", "L79", "L82", "L83", "L85", "L86"}
ReadOccurred == "total_financeiro" \in DOMAIN env \/ "rent" \in DOMAIN env

C10_AttachesBeforeReads ==
    [][ReadOccurred =>
        /\ ~(pc \in AttachLines /\ pc' # pc)
        /\ env'.root = env.root]_vars

C10_Witness ==
    /\ pc = "L96"
    /\ ReadOccurred
    /\ Len(env.root.childrens) = 2
====
